---- MODULE Spec2Model ----
(***************************************************************************)
(* Prefix autocomplete over a catalog of states, ranked by popularity.     *)
(*                                                                         *)
(* Two programs of the repository are modelled:                            *)
(*   - src/main.go: trie keyed by the label as stored, query handler       *)
(*     searchAndUpdateFrequency that ranks with sort.Slice and increments  *)
(*     the popularity of every match in memory and in the catalog store;   *)
(*   - src/db/populateStates.js, lines 1-190: the read-only variant with   *)
(*     a trie keyed by the lowercased label and an in-place exchange sort. *)
(* The HTTP server runs every request in its own goroutine and main.go     *)
(* takes no lock, so each access to shared memory is a step of its own.    *)
(***************************************************************************)
EXTENDS Integers, Sequences, FiniteSets, TLC

\* ------------------------------------------------------------ bounds
\* Initial popularity of a catalog document ranges over 0..MaxFreq.
MaxFreq == 2
\* Number of direct updateFrequency calls made by the unit harness SpecUF.
MaxCalls == 3
\* Number of documents the cursor of loadStatesIntoTrie yields in SpecLoad.
MaxInserts == 3

\* The goroutines serving queries (one query each).
Queries == {"q1", "q2"}

\* ------------------------------------------------------------ data
Alabama == <<"A", "l", "b">>
Alaska  == <<"A", "l", "s">>
Arizona == <<"A", "r">>

\* The characters that occur in labels and in search strings.
Chars == {"A", "a", "l", "b", "s", "r", "Z", "x"}

\* Search strings sent to the query endpoint.
Prefixes == { <<"A", "l">>, <<"A", "r">>, <<"a", "l">>, <<"Z">> }

\* Keys handed to updateFrequency by the unit harness.
Keys == { Alabama, <<"A", "l">>, <<"Z">>, <<"Z", "x">>, <<"A", "l", "b", "x">> }

\* A nil *TrieNode, and the outcome of dereferencing one.
Nil   == <<"nil">>
Panic == <<"panic">>

\* A document of the collection statesDB.states / a State struct.
State(name, code, frequency) == [Name |-> name, Code |-> code, Frequency |-> frequency]

\* The catalogs the store may hold at startup.
Catalogs ==
    { << State(Alabama, "AL", f1), State(Alaska, "AK", f2), State(Arizona, "AZ", f3) >> :
        f1 \in 0..MaxFreq, f2 \in 0..MaxFreq, f3 \in 0..MaxFreq }

\* strings.ToLower on the characters of the model.
LowerChar(c) == IF c = "A" THEN "a" ELSE IF c = "Z" THEN "z" ELSE c
ToLower(s) == [i \in DOMAIN s |-> LowerChar(s[i])]

IsPrefix(p, s) == Len(p) <= Len(s) /\ SubSeq(s, 1, Len(p)) = p

\* All orders in which the elements of a finite set can be enumerated.
RECURSIVE Perms(_)
Perms(S) ==
    IF S = {} THEN { <<>> }
    ELSE UNION { { <<x>> \o r : r \in Perms(S \ {x}) } : x \in S }

VARIABLES
    loaded,     \* the documents as the store held them at startup
    db,         \* the catalog store: sequence of documents
    nodes,      \* the trie: path from the root |-> TrieNode fields
    heap,       \* the State structs the trie points to: id |-> State
    pc,         \* per query: position in the handler
    search,     \* per query: the search string
    found,      \* per query (read-only variant): the slice as Search returned it
    seen,       \* per query: State id |-> the Frequency read for it while sorting
    results,    \* per query: the slice collected, then sorted in place
    idx,        \* per query: index of the range loop over results
    tmp,        \* per query: the value read from node.Frequency (0 once used)
    response,   \* per query: the list serialised to the caller
    storeErr,   \* per query: indexes of results whose UpdateOne returned an error
    window,     \* per query (history): the popularity of the collected States in
                \* each state of the index since the lookup, until the slice is sorted
    ufCalls,    \* unit harness: number of updateFrequency calls made
    ufOutcome   \* unit harness: outcome of the last updateFrequency call

vars == << loaded, db, nodes, heap, pc, search, found, seen, results, idx, tmp,
           response, storeErr, window, ufCalls, ufOutcome >>

qvars == << pc, search, found, seen, results, idx, tmp, response, storeErr, window >>

\* ------------------------------------------------------------ trie (main.go)
\* A freshly allocated TrieNode: &TrieNode{Children: make(map[rune]*TrieNode)}.
TrieNode == [IsEnd |-> FALSE, State |-> 0, Frequency |-> 0]

\* node.Children[char]: the child, or nil when the map has no such key.
Child(t, node, char) ==
    IF Append(node, char) \in DOMAIN t THEN Append(node, char) ELSE Nil

\* The loop of insert: create the missing nodes along the path of name.
RECURSIVE insertPath(_, _, _)
insertPath(t, node, rest) ==
    IF rest = <<>> THEN t
    ELSE LET next == Append(node, Head(rest))
             t2 == IF next \in DOMAIN t THEN t ELSE (next :> TrieNode) @@ t
         IN insertPath(t2, next, Tail(rest))

\* insert walking the lowercased label, as TrieNode.Insert of the read-only
\* variant does.
insertLowered(t, id, state) ==
    LET t2 == insertPath(t, <<>>, ToLower(state.Name))
    IN [t2 EXCEPT ![ToLower(state.Name)] =
            [IsEnd |-> TRUE, State |-> id, Frequency |-> state.Frequency]]

\* insert adding the new Frequency to the one the node already holds.
insertMerge(t, id, state) ==
    LET t2 == insertPath(t, <<>>, state.Name)
    IN [t2 EXCEPT ![state.Name] =
            [IsEnd |-> TRUE, State |-> id, Frequency |-> @.Frequency + state.Frequency]]

\* insert(root, state): id is the address of the State struct.
insert(t, id, state) ==
    LET t2 == insertPath(t, <<>>, state.Name)
    IN [t2 EXCEPT ![state.Name] =
            [IsEnd |-> TRUE, State |-> id, Frequency |-> state.Frequency]]

\* loadStatesIntoTrie: every decoded document is a State struct of its own.
RECURSIVE loadStatesIntoTrie(_, _, _)
loadStatesIntoTrie(t, docs, i) ==
    IF i > Len(docs) THEN t
    ELSE loadStatesIntoTrie(insert(t, i, docs[i]), docs, i + 1)

\* The walk of the search stopping one character before the end of the prefix.
RECURSIVE searchWalkShort(_, _, _)
searchWalkShort(t, node, rest) ==
    IF Len(rest) <= 1 THEN node
    ELSE IF Child(t, node, Head(rest)) = Nil THEN Nil
    ELSE searchWalkShort(t, Child(t, node, Head(rest)), Tail(rest))

\* The walk without the test for a missing character: it stays at the last
\* node it reached.
RECURSIVE searchWalkNoMiss(_, _, _)
searchWalkNoMiss(t, node, rest) ==
    IF rest = <<>> THEN node
    ELSE IF Append(node, Head(rest)) \notin DOMAIN t THEN node
    ELSE searchWalkNoMiss(t, Append(node, Head(rest)), Tail(rest))

\* The walk of searchAndUpdateFrequency: nil as soon as a character is missing.
RECURSIVE searchWalk(_, _, _)
searchWalk(t, node, rest) ==
    IF rest = <<>> THEN node
    ELSE IF Child(t, node, Head(rest)) = Nil THEN Nil
    ELSE searchWalk(t, Child(t, node, Head(rest)), Tail(rest))

\* The walk of updateFrequency: node = node.Children[char] with no nil check,
\* so reading Children of a nil node panics.
RECURSIVE updateWalk(_, _, _)
updateWalk(t, node, rest) ==
    IF rest = <<>> THEN node
    ELSE IF node = Nil THEN Panic
    ELSE updateWalk(t, Child(t, node, Head(rest)), Tail(rest))

\* collectStates: depth first, the node itself first, then the children in
\* the order the map iteration yields them, which Go leaves unspecified.
\* The set of slices the call can produce.
RECURSIVE collectStates(_, _), collectChildren(_, _, _)
collectChildren(t, node, order) ==
    IF order = <<>> THEN { <<>> }
    ELSE { a \o b : a \in collectStates(t, Append(node, Head(order))),
                    b \in collectChildren(t, node, Tail(order)) }
collectStates(t, node) ==
    LET self == IF t[node].IsEnd THEN << t[node].State >> ELSE <<>>
        children == { c \in Chars : Append(node, c) \in DOMAIN t }
    IN UNION { { self \o r : r \in collectChildren(t, node, order) } :
               order \in Perms(children) }

\* less with the comparison turned around: ranks by ascending Frequency.
lessAscending(fi, fj) == fi < fj

\* The less function of sortStatesByFrequency, on two Frequency values.
less(fi, fj) == fi > fj

\* The slice s rearranged by the permutation p of its indexes.
Permute(s, p) == [i \in DOMAIN s |-> s[p[i]]]

\* sort.Slice does not promise stability: any rearrangement that is sorted by
\* less can come out. f[i] is the Frequency read for the i-th element; the
\* set of permutations sort.Slice may apply.
sortStatesByFrequency(f) ==
    { p \in Perms(DOMAIN f) : \A i, j \in DOMAIN f : i < j => ~less(f[p[j]], f[p[i]]) }

\* ------------------------------------------------------------ initial state
TypeQ(v) == [q \in Queries |-> v]

InitQueries ==
    /\ pc = TypeQ("idle")
    /\ search = TypeQ(<<>>)
    /\ found = TypeQ(<<>>)
    /\ seen = TypeQ(<<>>)
    /\ results = TypeQ(<<>>)
    /\ idx = TypeQ(0)
    /\ tmp = TypeQ(0)
    /\ response = TypeQ(<<>>)
    /\ storeErr = TypeQ({})
    /\ window = TypeQ({})
    /\ ufCalls = 0
    /\ ufOutcome = "none"

\* init() of main.go: the root node, then loadStatesIntoTrie.
Init ==
    /\ db \in Catalogs
    /\ loaded = db
    /\ nodes = loadStatesIntoTrie(<<>> :> TrieNode, db, 1)
    /\ heap = db
    /\ InitQueries


\* ------------------------------------------------------------ the catalog store
\* UpdateOne whose filter matches no document.
UpdateOneNoMatch(docs, stateName) == docs

\* UpdateOne({name: stateName}, {$inc: {frequency: 1}}): the first document
\* with that name, if any, has its frequency raised by one.
UpdateOne(docs, stateName) ==
    LET hits == { i \in DOMAIN docs : docs[i].Name = stateName }
    IN IF hits = {} THEN docs
       ELSE LET first == CHOOSE i \in hits : \A j \in hits : i <= j
            IN [docs EXCEPT ![first].Frequency = @ + 1]

\* ------------------------------------------------------------ query handler (main.go)
\* The State the range loop of searchAndUpdateFrequency is at.
Current(q) == results[q][idx[q]]

\* The node updateFrequency reaches for the current State's name.
Target(q) == updateWalk(nodes, <<>>, heap[Current(q)].Name)

\* node.Frequency++ left out: the value read is written back.
NotIncremented(v) == v

\* node.Frequency++ : the value written back for the value read.
Incremented(v) == v + 1

\* The next position of the range loop once updateFrequency has returned.
Advance(q) ==
    IF idx[q] < Len(results[q])
    THEN /\ idx' = [idx EXCEPT ![q] = @ + 1]
         /\ pc' = [pc EXCEPT ![q] = "incRead"]
    ELSE /\ idx' = idx
         /\ pc' = [pc EXCEPT ![q] = "respond"]

\* The popularity the State structs h hold for the States of the slice f.
Popularity(h, f) == [id \in { f[k] : k \in DOMAIN f } |-> h[id].Frequency]

\* Resolve is called with the search string p: the walk from the root and
\* collectStates. A missing character ends the query with an empty list.
Start(q, p) ==
    /\ pc[q] = "idle"
    /\ search' = [search EXCEPT ![q] = p]
    /\ LET node == searchWalk(nodes, <<>>, p)
       IN IF node = Nil
          THEN /\ pc' = [pc EXCEPT ![q] = "done"]
               /\ results' = results
               /\ window' = window
          ELSE \E f \in collectStates(nodes, node) :
                 /\ results' = [results EXCEPT ![q] = f]
                 /\ pc' = [pc EXCEPT ![q] = IF f = <<>> THEN "respond" ELSE "rank"]
                 /\ window' = [window EXCEPT ![q] = IF f = <<>> THEN {} ELSE { Popularity(heap, f) }]
    /\ UNCHANGED << db, nodes, heap, found, seen, idx, tmp, response, storeErr,
                    ufCalls, ufOutcome, loaded >>

\* sortStatesByFrequency reads states[i].Frequency through the pointers: one
\* read per element, the slice being sorted in place once all have been read.
\* seen[q][id] is the Frequency the query read for the State id.
Rank(q) ==
    /\ pc[q] = "rank"
    /\ LET i == Cardinality(DOMAIN seen[q]) + 1
           id == results[q][i]
           s == (id :> heap[id].Frequency) @@ seen[q]
       IN /\ seen' = [seen EXCEPT ![q] = s]
          /\ IF i < Len(results[q])
             THEN UNCHANGED << results, idx, pc, window >>
             ELSE \E p \in sortStatesByFrequency([k \in DOMAIN results[q] |-> s[results[q][k]]]) :
                    /\ results' = [results EXCEPT ![q] = Permute(@, p)]
                    /\ idx' = [idx EXCEPT ![q] = 1]
                    /\ pc' = [pc EXCEPT ![q] = "incRead"]
                    /\ window' = [window EXCEPT ![q] = {}]
    /\ UNCHANGED << db, nodes, heap, search, found, tmp, response,
                    storeErr, ufCalls, ufOutcome, loaded >>

\* updateFrequency, lines 141-146: the walk, the test, the read of node.Frequency.
IncRead(q) ==
    /\ pc[q] = "incRead"
    /\ LET node == Target(q)
       IN IF node = Panic
          THEN /\ pc' = [pc EXCEPT ![q] = "panic"]
               /\ UNCHANGED << tmp, idx >>
          ELSE IF node # Nil /\ nodes[node].IsEnd
          THEN /\ tmp' = [tmp EXCEPT ![q] = nodes[node].Frequency]
               /\ pc' = [pc EXCEPT ![q] = "incWrite"]
               /\ idx' = idx
          ELSE /\ tmp' = tmp
               /\ Advance(q)
    /\ UNCHANGED << db, nodes, heap, search, found, window, seen, results, response,
                    storeErr, ufCalls, ufOutcome, loaded >>

\* updateFrequency, line 146: the write of node.Frequency.
IncWrite(q) ==
    /\ pc[q] = "incWrite"
    /\ nodes' = [nodes EXCEPT ![Target(q)].Frequency = Incremented(tmp[q])]
    /\ pc' = [pc EXCEPT ![q] = "copyRead"]
    /\ tmp' = [tmp EXCEPT ![q] = 0]
    /\ UNCHANGED << db, heap, search, found, window, seen, results, idx, response,
                    storeErr, ufCalls, ufOutcome, loaded >>

\* updateFrequency, line 147: the read of node.Frequency.
CopyRead(q) ==
    /\ pc[q] = "copyRead"
    /\ tmp' = [tmp EXCEPT ![q] = nodes[Target(q)].Frequency]
    /\ pc' = [pc EXCEPT ![q] = "copyWrite"]
    /\ UNCHANGED << db, nodes, heap, search, found, window, seen, results, idx, response,
                    storeErr, ufCalls, ufOutcome, loaded >>

\* updateFrequency, line 147: the write of node.State.Frequency; then
\* UpdateOne is called and the goroutine waits for the store.
CopyWrite(q) ==
    /\ pc[q] = "copyWrite"
    /\ heap' = [heap EXCEPT ![nodes[Target(q)].State].Frequency = tmp[q]]
    /\ pc' = [pc EXCEPT ![q] = "store"]
    /\ tmp' = [tmp EXCEPT ![q] = 0]
    /\ window' = [r \in Queries |->
                    IF pc[r] = "rank" THEN window[r] \cup { Popularity(heap', results[r]) }
                    ELSE window[r]]
    /\ UNCHANGED << db, nodes, search, found, seen, results, idx, response,
                    storeErr, ufCalls, ufOutcome, loaded >>

\* StoreReply with an error ending the loop over the results.
StoreReplyAbort(q, ok) ==
    /\ pc[q] = "store"
    /\ IF ok
       THEN /\ db' = UpdateOne(db, heap[Current(q)].Name)
            /\ storeErr' = storeErr
            /\ Advance(q)
       ELSE /\ db' = db
            /\ storeErr' = [storeErr EXCEPT ![q] = @ \cup {idx[q]}]
            /\ idx' = idx
            /\ pc' = [pc EXCEPT ![q] = "respond"]
    /\ UNCHANGED << nodes, heap, search, found, window, seen, results, tmp, response,
                    ufCalls, ufOutcome, loaded >>

\* UpdateOne returns: the store applied the $inc (ok) or reported an error,
\* which is logged. Either way updateFrequency returns and the loop goes on.
StoreReply(q, ok) ==
    /\ pc[q] = "store"
    /\ IF ok
       THEN /\ db' = UpdateOne(db, heap[Current(q)].Name)
            /\ storeErr' = storeErr
       ELSE /\ db' = db
            /\ storeErr' = [storeErr EXCEPT ![q] = @ \cup {idx[q]}]
    /\ Advance(q)
    /\ UNCHANGED << nodes, heap, search, found, window, seen, results, tmp, response,
                    ufCalls, ufOutcome, loaded >>

\* Resolve returns results: the caller serialises the States the pointers
\* lead to, as they are by then.
Respond(q) ==
    /\ pc[q] = "respond"
    /\ response' = [response EXCEPT ![q] = [i \in DOMAIN results[q] |-> heap[results[q][i]]]]
    /\ pc' = [pc EXCEPT ![q] = "done"]
    /\ UNCHANGED << db, nodes, heap, search, found, window, seen, results, idx, tmp,
                    storeErr, ufCalls, ufOutcome, loaded >>

\* The steps a query takes by itself, once started.
QueryStep(q) ==
    \/ Rank(q)
    \/ IncRead(q)
    \/ IncWrite(q)
    \/ CopyRead(q)
    \/ CopyWrite(q)
    \/ Respond(q)

Next ==
    \/ \E q \in Queries, p \in Prefixes : Start(q, p)
    \/ \E q \in Queries : Rank(q)
    \/ \E q \in Queries : IncRead(q)
    \/ \E q \in Queries : IncWrite(q)
    \/ \E q \in Queries : CopyRead(q)
    \/ \E q \in Queries : CopyWrite(q)
    \/ \E q \in Queries, ok \in BOOLEAN : StoreReply(q, ok)
    \/ \E q \in Queries : Respond(q)

\* Queries served concurrently, as net/http does.
Spec == Init /\ [][Next]_vars


\* ------------------------------------------------------------ one query at a time
\* Search strings of the sequential runs: those of Prefixes and the empty one.
SeqPrefixes == Prefixes \cup { <<>> }

\* No other query is between its lookup and its response.
Quiet(q) == \A r \in Queries \ {q} : pc[r] \in {"idle", "done"}

StartSeq(q, p) == Quiet(q) /\ Start(q, p)

NextSeq ==
    \/ \E q \in Queries, p \in SeqPrefixes : StartSeq(q, p)
    \/ \E q \in Queries : Rank(q)
    \/ \E q \in Queries : IncRead(q)
    \/ \E q \in Queries : IncWrite(q)
    \/ \E q \in Queries : CopyRead(q)
    \/ \E q \in Queries : CopyWrite(q)
    \/ \E q \in Queries, ok \in BOOLEAN : StoreReply(q, ok)
    \/ \E q \in Queries : Respond(q)

\* Queries served one after the other.
SpecSeq == Init /\ [][NextSeq]_vars

\* ------------------------------------------------------------ scheduling
\* The Go scheduler runs every runnable goroutine; whether and when the
\* catalog store answers an UpdateOne (made with context.Background(), which
\* never times out) is up to the store.
SpecLive == Init /\ [][Next]_vars /\ \A q \in Queries : WF_vars(QueryStep(q))

\* ------------------------------------------------------------ updateFrequency called directly
\* A key resolves to a terminal node: its whole path exists and ends at IsEnd.
Terminal(key) == key \in DOMAIN nodes /\ nodes[key].IsEnd

\* One call updateFrequency(root, key) run to its end by a single goroutine;
\* ok is the store's answer to UpdateOne.
Increment(key, ok) ==
    /\ ufCalls < MaxCalls
    /\ ufOutcome # "panic"
    /\ ufCalls' = ufCalls + 1
    /\ LET node == updateWalk(nodes, <<>>, key)
       IN IF node = Panic
          THEN /\ ufOutcome' = "panic"
               /\ UNCHANGED << db, nodes, heap >>
          ELSE IF node # Nil /\ nodes[node].IsEnd
          THEN /\ ufOutcome' = "incremented"
               /\ nodes' = [nodes EXCEPT ![node].Frequency = Incremented(@)]
               /\ heap' = [heap EXCEPT ![nodes[node].State].Frequency = nodes'[node].Frequency]
               /\ db' = IF ok THEN UpdateOne(db, key) ELSE db
          ELSE /\ ufOutcome' = "noop"
               /\ UNCHANGED << db, nodes, heap >>
    /\ UNCHANGED << qvars, loaded >>

NextUF == \E key \in Keys, ok \in BOOLEAN : Increment(key, ok)

\* updateFrequency exercised on its own, on any key.
SpecUF == Init /\ [][NextUF]_vars


\* ------------------------------------------------------------ the read-only variant
\* (src/db/populateStates.js, lines 1-190: trie keyed by the lowercased label,
\* no popularity update, ranking by an in-place exchange sort)

\* NewTrieNode().
NewTrieNode == [IsEndOfWord |-> FALSE, State |-> 0]

\* The loop of TrieNode.Insert over the lowercased word.
RECURSIVE InsertPath(_, _, _)
InsertPath(t, node, rest) ==
    IF rest = <<>> THEN t
    ELSE LET next == Append(node, Head(rest))
             t2 == IF next \in DOMAIN t THEN t ELSE (next :> NewTrieNode) @@ t
         IN InsertPath(t2, next, Tail(rest))

\* TrieNode.Insert(state): id is the address passed as &state.
Insert(t, id, state) ==
    LET word == ToLower(state.Name)
        t2 == InsertPath(t, <<>>, word)
    IN [t2 EXCEPT ![word] = [IsEndOfWord |-> TRUE, State |-> id]]

\* populateTrie: for _, state := range states { trie.Insert(&state) }.
\* addr[i] is the address of the loop variable in iteration i.
RECURSIVE populateTrie(_, _, _, _)
populateTrie(t, docs, addr, i) ==
    IF i > Len(docs) THEN t
    ELSE populateTrie(Insert(t, addr[i], docs[i]), docs, addr, i + 1)

\* TrieNode.getAllStates: as collectStates, children in map order.
RECURSIVE getAllStates(_, _), getAllChildren(_, _, _)
getAllChildren(t, node, order) ==
    IF order = <<>> THEN { <<>> }
    ELSE { a \o b : a \in getAllStates(t, Append(node, Head(order))),
                    b \in getAllChildren(t, node, Tail(order)) }
getAllStates(t, node) ==
    LET self == IF t[node].IsEndOfWord THEN << t[node].State >> ELSE <<>>
        children == { c \in Chars : Append(node, c) \in DOMAIN t }
    IN UNION { { self \o r : r \in getAllChildren(t, node, order) } :
               order \in Perms(children) }

\* TrieNode.Search(prefix): the set of slices it can return; nil (here the
\* empty slice) when a character of the lowercased prefix is missing.
Search(t, prefix) ==
    LET node == searchWalk(t, <<>>, ToLower(prefix))
    IN IF node = Nil THEN { <<>> } ELSE getAllStates(t, node)

\* states[i], states[j] = states[j], states[i].
Swap(s, i, j) == [s EXCEPT ![i] = s[j], ![j] = s[i]]

\* The sort of Resolve, lines 114-120: for every i, every later j is swapped
\* into position i when its Frequency is larger. h holds the State structs.
RECURSIVE SortInner(_, _, _, _)
SortInner(s, h, i, j) ==
    IF j > Len(s) THEN s
    ELSE SortInner(IF h[s[i]].Frequency < h[s[j]].Frequency THEN Swap(s, i, j) ELSE s,
                   h, i, j + 1)

RECURSIVE SortOuter(_, _, _)
SortOuter(s, h, i) ==
    IF i > Len(s) THEN s
    ELSE SortOuter(SortInner(s, h, i, i + 1), h, i + 1)

\* main() after populateTrie. Before Go 1.22 the loop variable of
\* populateTrie is one variable for the whole loop, so that every &state is
\* the same address, holding the last document; from Go 1.22 on each
\* iteration has a variable of its own. The repository does not fix the
\* language version.
InitRO ==
    /\ db \in Catalogs
    /\ loaded = db
    /\ \E perIteration \in BOOLEAN :
         LET addr == [i \in DOMAIN db |-> IF perIteration THEN i ELSE 1]
         IN /\ nodes = populateTrie(<<>> :> NewTrieNode, db, addr, 1)
            /\ heap = IF perIteration THEN db ELSE << db[Len(db)] >>
    /\ InitQueries

\* Resolve of the read-only variant, run to its end: nothing it reads is
\* ever written after startup.
Resolve(q, p) ==
    /\ pc[q] = "idle"
    /\ search' = [search EXCEPT ![q] = p]
    /\ \E f \in Search(nodes, p) :
         LET sorted == SortOuter(f, heap, 1)
         IN /\ found' = [found EXCEPT ![q] = f]
            /\ results' = [results EXCEPT ![q] = sorted]
            /\ response' = [response EXCEPT ![q] = [i \in DOMAIN sorted |-> heap[sorted[i]]]]
    /\ pc' = [pc EXCEPT ![q] = "done"]
    /\ UNCHANGED << db, nodes, heap, seen, idx, tmp, storeErr, window, ufCalls, ufOutcome,
                    loaded >>

NextRO == \E q \in Queries, p \in SeqPrefixes : Resolve(q, p)

SpecRO == InitRO /\ [][NextRO]_vars


\* ------------------------------------------------------------ loading, document by document
\* The documents the cursor may yield: labels that differ in case only, a
\* label that is a prefix of another, any code, any popularity.
LoadDocs ==
    { State(n, c, f) : n \in { Arizona, <<"a", "r">>, <<"A">> },
                       c \in { "AZ", "ZA" },
                       f \in 0..MaxFreq }

\* init() before loadStatesIntoTrie: the root node alone.
InitLoad ==
    /\ db = <<>>
    /\ loaded = <<>>
    /\ nodes = (<<>> :> TrieNode)
    /\ heap = <<>>
    /\ InitQueries

\* One iteration of the loop of loadStatesIntoTrie: the document is decoded
\* into a State struct of its own and inserted.
Load(d) ==
    /\ Len(loaded) < MaxInserts
    /\ loaded' = Append(loaded, d)
    /\ heap' = Append(heap, d)
    /\ nodes' = insert(nodes, Len(heap) + 1, d)
    /\ UNCHANGED << db, qvars, ufCalls, ufOutcome >>

NextLoad == \E d \in LoadDocs : Load(d)

\* The index while it is being loaded.
SpecLoad == InitLoad /\ [][NextLoad]_vars

\* What searchAndUpdateFrequency collects for the prefix p in the trie t with
\* the State structs h: every slice it can collect, as the Entries it holds
\* and the popularity their nodes hold.
SearchResults(t, h, p) ==
    LET node == searchWalk(t, <<>>, p)
    IN IF node = Nil THEN { <<>> }
       ELSE { [i \in DOMAIN s |-> [Entry |-> h[s[i]], Node |-> t[h[s[i]].Name].Frequency]] :
                s \in collectStates(t, node) }

\* ------------------------------------------------------------ properties

\* The queries of main.go whose handler has returned a list.
Responded(q) == pc[q] = "done"

\* C1: the popularity carried by each Entry of a response is the popularity
\* the Entry had at lookup time, before this query's own increments.
C1_ResponseCarriesLookupPopularity ==
    \A q \in Queries :
        Responded(q) =>
            \A i \in DOMAIN response[q] :
                response[q][i].Frequency = seen[q][results[q][i]]

C3_SearchIncludesEveryPrefixMatch ==
    \A q \in Queries :
        pc[q] # "idle" =>
            \A i \in DOMAIN loaded :
                IsPrefix(ToLower(search[q]), ToLower(loaded[i].Name)) =>
                    \E k \in DOMAIN results[q] : heap[results[q][k]].Name = loaded[i].Name


\* No label of the catalog starts with p.
NoLabelHasPrefix(p) == \A i \in DOMAIN loaded : ~IsPrefix(p, loaded[i].Name)

\* C4: a query whose search string is a prefix of no stored label ends at
\* once with an empty list, changes no popularity in the index or in the
\* store, and takes no step after that.
C4_NoMatchNoEffect ==
    [][ \A q \in Queries :
          /\ \A p \in Prefixes :
               (Start(q, p) /\ NoLabelHasPrefix(p)) =>
                   /\ pc'[q] = "done"
                   /\ response'[q] = <<>>
                   /\ nodes' = nodes /\ heap' = heap /\ db' = db
          /\ Responded(q) => (pc'[q] = "done" /\ response'[q] = response[q]) ]_vars

\* A query for "Z" has responded with the empty list.
C4_Witness ==
    \E q \in Queries :
        /\ Responded(q)
        /\ search[q] = <<"Z">>
        /\ NoLabelHasPrefix(search[q])
        /\ response[q] = <<>>

\* The in-memory popularity of the State id: both copies hold v.
InMemory(n, h, id, v) == h[id].Frequency = v /\ n[h[id].Name].Frequency = v

\* C5: with one query at a time, when a query for P has gone through its
\* matches every Entry whose label starts with P has its in-memory popularity
\* one above the value at lookup, and no step changes the popularity of an
\* Entry whose label does not start with the running query's P.
C5_QueryIncrementsMatchesByOne ==
    [][ /\ \A q \in Queries :
             pc'[q] = "respond" =>
                 \A id \in DOMAIN heap :
                     IsPrefix(search'[q], heap[id].Name) =>
                         /\ id \in DOMAIN seen'[q]
                         /\ InMemory(nodes', heap', id, seen'[q][id] + 1)
        /\ \A id \in DOMAIN heap :
             (\/ heap'[id].Frequency # heap[id].Frequency
              \/ nodes'[heap[id].Name].Frequency # nodes[heap[id].Name].Frequency) =>
                 \E q \in Queries :
                     /\ pc[q] \in {"incWrite", "copyWrite"}
                     /\ IsPrefix(search[q], heap[id].Name) ]_vars

\* The second of two queries has incremented its two matches; Arizona is not
\* one of them.
C5_Witness ==
    \E q, r \in Queries :
        /\ pc[q] = "respond" /\ Len(results[q]) = 2
        /\ Responded(r) /\ results[r] # <<>>
        /\ \E id \in DOMAIN heap : ~IsPrefix(search[q], heap[id].Name)

\* C6: once all queries have completed, the in-memory popularity of every
\* Entry is its initial popularity plus the number of queries that matched it.
C6_NoIncrementLost ==
    (\A q \in Queries : Responded(q)) =>
        \A id \in DOMAIN heap :
            LET n == Cardinality({ q \in Queries : \E k \in DOMAIN results[q] : results[q][k] = id })
            IN InMemory(nodes, heap, id, loaded[id].Frequency + n)

\* The first position of x in the slice s.
Pos(s, x) == CHOOSE i \in DOMAIN s : s[i] = x /\ \A j \in DOMAIN s : s[j] = x => i <= j

\* C7: two matches of equal popularity come out of the ranking in the order
\* in which the traversal found them.
C7_RankingStable ==
    \A q \in Queries :
        Responded(q) =>
            \A i, j \in DOMAIN results[q] :
                (i < j /\ heap[results[q][i]].Frequency = heap[results[q][j]].Frequency) =>
                    Pos(found[q], results[q][i]) <= Pos(found[q], results[q][j])

\* C8: a query that waits for the store's answer to an update still responds,
\* whether or not the answer ever comes.
C8_ResponseNotBlockedByStore ==
    \A q \in Queries : (pc[q] = "store") ~> Responded(q)

\* C9: with one query at a time, a query that met a store failure keeps the
\* in-memory increment of the Entry concerned, goes on to increment every
\* match, and responds with all its matches, ranked.
C9_StoreFailureAbsorbed ==
    \A q \in Queries :
        storeErr[q] # {} =>
            /\ pc[q] # "panic"
            /\ ~Responded(q) =>
                 \A k \in storeErr[q] :
                     InMemory(nodes, heap, results[q][k], seen[q][results[q][k]] + 1)
            /\ pc[q] = "respond" =>
                 \A k \in DOMAIN results[q] :
                     InMemory(nodes, heap, results[q][k], seen[q][results[q][k]] + 1)
            /\ Responded(q) =>
                 /\ { response[q][k].Name : k \in DOMAIN response[q] }
                      = { loaded[i].Name : i \in { i \in DOMAIN loaded : IsPrefix(search[q], loaded[i].Name) } }
                 /\ \A i, j \in DOMAIN response[q] :
                      i < j => /\ response[q][i].Name # response[q][j].Name
                               /\ seen[q][results[q][i]] >= seen[q][results[q][j]]

\* A query has responded with two Entries although the store update of the
\* first one failed.
C9_Witness ==
    \E q \in Queries :
        /\ Responded(q)
        /\ 1 \in storeErr[q]
        /\ Len(response[q]) = 2

\* C10: updateFrequency on a key that resolves to no terminal node does not
\* crash and changes neither the index nor the store.
C10_IncrementMissingKeyIsNoOp ==
    [][ \A key \in Keys, ok \in BOOLEAN :
          (Increment(key, ok) /\ ~Terminal(key)) =>
              /\ ufOutcome' = "noop"
              /\ nodes' = nodes /\ heap' = heap /\ db' = db ]_vars


\* The terminal nodes whose Entry has the lowercased key k.
TerminalsOf(k) ==
    { p \in DOMAIN nodes : nodes[p].IsEnd /\ ToLower(heap[nodes[p].State].Name) = k }

\* C11: after any sequence of inserts the index holds exactly one Entry per
\* lowercased key, and it is the last one inserted with that key, with its
\* label, code and popularity.
C11_OneEntryPerKeyLastWins ==
    \A i \in DOMAIN loaded :
        LET k == ToLower(loaded[i].Name)
            last == CHOOSE j \in DOMAIN loaded :
                        /\ ToLower(loaded[j].Name) = k
                        /\ \A m \in DOMAIN loaded : ToLower(loaded[m].Name) = k => m <= j
        IN /\ Cardinality(TerminalsOf(k)) = 1
           /\ \A p \in TerminalsOf(k) :
                /\ heap[nodes[p].State] = loaded[last]
                /\ nodes[p].Frequency = loaded[last].Frequency

\* The prefixes searched to compare two indexes.
LoadPrefixes == { <<>>, <<"A">>, <<"a">>, <<"A", "r">>, <<"a", "r">>, <<"Z">> }

\* The Entry d is the one the index holds for its label, with d's popularity.
Holds(d) ==
    /\ d.Name \in DOMAIN nodes
    /\ nodes[d.Name].IsEnd
    /\ heap[nodes[d.Name].State] = d
    /\ nodes[d.Name].Frequency = d.Frequency

\* C12: inserting an Entry the index already holds, with the same popularity,
\* leaves the result of the search unchanged for every prefix.
C12_InsertIdempotent ==
    [][ \A d \in LoadDocs :
          (Load(d) /\ Holds(d)) =>
              \A p \in LoadPrefixes :
                  SearchResults(nodes', heap', p) = SearchResults(nodes, heap, p) ]_vars

\* The same Entry has been inserted twice in a row, after another one.
C12_Witness ==
    /\ Len(loaded) = 3
    /\ loaded[3] = loaded[2]
    /\ loaded[1].Name # loaded[2].Name
    /\ loaded[3].Frequency > 0


\* C13: the popularity held in memory (on the node and on the State struct)
\* and the popularity held in the catalog store never decrease, whatever the
\* interleaving of the queries.
C13_PopularityNeverDecreases ==
    [][ /\ \A id \in DOMAIN heap : heap'[id].Frequency >= heap[id].Frequency
        /\ \A p \in DOMAIN nodes : nodes'[p].Frequency >= nodes[p].Frequency
        /\ \A i \in DOMAIN db : db'[i].Frequency >= db[i].Frequency ]_vars


\* The slice f is ordered by non-increasing popularity in the index state w.
RankedIn(f, w) ==
    \A i, j \in DOMAIN f : i < j => w[f[i]] >= w[f[j]]

\* C14: with concurrent queries for the same prefix, the list a query has
\* ranked holds every matching Entry exactly once and is ordered by
\* non-increasing popularity in one state the index had during the query.
C14_RankedOnSingleState ==
    [][ \A q \in Queries :
          ( /\ pc[q] = "rank"
            /\ pc'[q] = "incRead"
            /\ \A r \in Queries : pc[r] # "idle" => search[r] = search[q] )
          => /\ { results'[q][k] : k \in DOMAIN results'[q] }
                  = { id \in DOMAIN heap : IsPrefix(search[q], heap[id].Name) }
             /\ \A i, j \in DOMAIN results'[q] : i # j => results'[q][i] # results'[q][j]
             /\ \E w \in window[q] : RankedIn(results'[q], w) ]_vars


\* No query is in flight.
NoQueryInFlight == \A q \in Queries : pc[q] \in { "idle", "done" }

\* The store updates a completed query made for the State id: the indexes of
\* its results that hold id, those that failed and those that succeeded.
UpdatesFailed(id) ==
    { <<q, k>> \in Queries \X DOMAIN heap :
        pc[q] = "done" /\ k \in DOMAIN results[q] /\ results[q][k] = id /\ k \in storeErr[q] }

UpdatesSucceeded(id) ==
    { <<q, k>> \in Queries \X DOMAIN heap :
        pc[q] = "done" /\ k \in DOMAIN results[q] /\ results[q][k] = id /\ k \notin storeErr[q] }

C16_PathSpellsLoweredLabel ==
    \A p \in DOMAIN nodes :
        nodes[p].IsEnd => p = ToLower(heap[nodes[p].State].Name)

\* C17: for every query and every Entry its search returned, the walk of
\* updateFrequency with the Entry's label ends on a terminal node, so the
\* query never takes the branch that skips the increment, nor panics.
C17_ResultsResolveInIncrement ==
    \A q \in Queries :
        /\ pc[q] # "panic"
        /\ \A k \in DOMAIN results[q] :
             LET node == updateWalk(nodes, <<>>, heap[results[q][k]].Name)
             IN /\ node \notin { Nil, Panic }
                /\ nodes[node].IsEnd

\* A query has passed the test of updateFrequency for the second Entry of its
\* result.
C17_Witness ==
    \E q \in Queries : pc[q] = "incWrite" /\ idx[q] = 2 /\ Len(results[q]) = 2

\* C18: every Entry in the result of a search has a key that starts with the
\* prefix searched, and no Entry is in the result more than once.
C18_SearchSound ==
    \A q \in Queries :
        pc[q] # "idle" =>
            /\ \A k \in DOMAIN results[q] :
                 /\ IsPrefix(search[q], heap[results[q][k]].Name)
                 /\ IsPrefix(ToLower(search[q]), ToLower(heap[results[q][k]].Name))
            /\ \A i, j \in DOMAIN results[q] : i # j => results[q][i] # results[q][j]

\* A search has returned two Entries while another query is past its lookup.
C18_Witness ==
    \E q, r \in Queries :
        /\ q # r
        /\ pc[q] = "done" /\ Len(results[q]) = 2
        /\ pc[r] \notin { "idle", "done" }


\* C19: in every reachable state, for every Entry, the popularity the catalog
\* store holds is at most the popularity held in memory, whatever the
\* interleaving of the queries and whichever store updates fail.
C19_StoreAtMostMemory ==
    \A id \in DOMAIN heap : db[id].Frequency <= heap[id].Frequency

\* C20: once every query has completed, the Frequency of each terminal node
\* equals the Frequency of the State it stores, whatever the interleaving.
C20_NodeAndStateAgree ==
    NoQueryInFlight =>
        \A p \in DOMAIN nodes :
            nodes[p].IsEnd => nodes[p].Frequency = heap[nodes[p].State].Frequency

====
